---- MODULE Spec2Model ----
(***************************************************************************)
(* A model of the OUSD compensation calculation.  src/transform.py: the    *)
(* Account object (SpecAccount, SpecSplit), the ledger of main() (Spec).   *)
(* The extractors that write its input files: the liquidity extractors     *)
(* uniswap_lps.py, sushiswap_lps.py and mooniswap_lps.py (SpecLps) and     *)
(* the swap extractor uniswap_swaps.py (SpecSwaps).                        *)
(*                                                                         *)
(* Numbers of transform.py.  The source computes with Python ints          *)
(* (unbounded), Decimals (exact up to 28 significant digits) and, for the  *)
(* ETH rate of main(), a float.  The model computes in exact integer       *)
(* arithmetic: a Decimal ratio is a pair <<num, den>>, floor() of a        *)
(* quotient is \div.  Values                                               *)
(* the source writes at 18 decimals are written here at USD_DECIMALS       *)
(* decimals, so that every intermediate value fits a 32-bit integer.       *)
(* Rounding of floats above 2^53 and of Decimals beyond 28 digits is not   *)
(* part of that model.  The extractors divide Decimals whose quotient      *)
(* does not terminate, so their model rounds as decimal does (see          *)
(* DECIMAL_PREC).                                                          *)
(***************************************************************************)
EXTENDS Integers, Sequences, FiniteSets, TLC

VARIABLES
    params,     \* the CalcParameters object every Account of the run holds
    acct,       \* SpecAccount: the Account object under test
    calls,      \* SpecAccount: calls[m][arg], how often method m was called with arg (history)
    ncalls,     \* SpecAccount: the number of calls made (history)
    out,        \* the rows written so far (SpecSplit: what to_list() returned)
    accounts,   \* Spec: the ledger of main(), a dict in insertion order
    blacklist,  \* Spec: the addresses main() leaves out of the output
    pc,         \* Spec: the file main() is reading, or how the run ended
    nrows,      \* Spec: the number of rows read (history)
    referenced, \* Spec: the addresses the rows read so far name (history)
    chain,      \* SpecLps, SpecSwaps: what the node answers, the input of an extractor
    run         \* SpecLps, SpecSwaps: the local variables of the extractor's main()

account_vars == <<acct, calls, ncalls>>
ledger_vars  == <<accounts, blacklist, pc, nrows, referenced>>
extractor_vars == <<chain, run>>
vars == <<params, acct, calls, ncalls, out, accounts, blacklist, pc, nrows, referenced,
          chain, run>>

(***************************************************************************)
(* Bounds of the model.                                                    *)
(***************************************************************************)
\* The number of accumulation calls made on the account of SpecAccount.
MaxCalls == 3
\* The number of CSV rows main() reads in a run of Spec.
MaxRows == 2
\* The decimals of a USD (OUSD, OGN, WETH) amount: 18 in the source.
USD_DECIMALS == 2
\* The decimals of a USDT or USDC amount: 6 in the source.
STABLE_DECIMALS == 1

(***************************************************************************)
(* Python helpers.                                                         *)
(***************************************************************************)
\* pow(b, e) for e >= 0
RECURSIVE pow(_, _)
pow(b, e) == IF e = 0 THEN 1 ELSE b * pow(b, e - 1)

\* int(s) of a CSV cell: a decimal numeral, here the sequence of its digits
RECURSIVE int(_)
int(s) == IF s = <<>> THEN 0 ELSE 10 * int(SubSeq(s, 1, Len(s) - 1)) + s[Len(s)]

\* sum() of a list of integers
RECURSIVE sum(_)
sum(list) == IF list = <<>> THEN 0 ELSE list[1] + sum(Tail(list))

max(a, b) == IF a >= b THEN a ELSE b

\* floor(a * r) for an integer a and a Decimal r = r[1] / r[2] with r[2] > 0
floor_mul(a, r) == (a * r[1]) \div r[2]

\* class Direction(Enum)
LEFT == 0
RIGHT == 1

\* Decimal(1e18): one whole token
WAD == pow(10, USD_DECIMALS)

(***************************************************************************)
(* class CalcParameters                                                    *)
(***************************************************************************)
CalcParameters(split, price, eth, minimum, threshold) ==
    [ split_threshold   |-> threshold,
      ousd_ogn_split    |-> split,
      ogn_price_usd     |-> price,
      eth_value_usd     |-> eth,
      minimum_threshold |-> minimum ]

\* Small representatives of the constructor's arguments.  DefaultParams
\* follows the defaults of CalcParameters.__init__ (split 0.5, minimum 0),
\* MainParams the object main() builds (split 0.25, a positive minimum).
DefaultParams == CalcParameters(<<1, 2>>, 15, 600, 0, 1000)
MainParams    == CalcParameters(<<1, 4>>, 14, 3, 500, 1000)

\* The parameter objects the split is computed under: the two above, and
\* others that take the split ratio to the ends of [0, 1] and move the
\* thresholds and the prices.
ParamChoices ==
    { DefaultParams,
      MainParams,
      CalcParameters(<<1, 4>>, 14, 578, 1, 1000),
      CalcParameters(<<1, 3>>, 7, 3, 500, 0),
      CalcParameters(<<2, 3>>, 9, 600, 0, 955),
      CalcParameters(<<1, 1>>, 13, 578, 0, 1003),
      CalcParameters(<<0, 1>>, 15, 600, 0, 1000) }

(***************************************************************************)
(* class Account                                                           *)
(***************************************************************************)
Account(address, p) ==
    [ address |-> address,
      params  |-> p,
      _ousd_balance_start |-> 0, _ousd_balance_end |-> 0,
      _usdt_balance_start |-> 0, _usdt_balance_end |-> 0,
      _usdc_balance_start |-> 0, _usdc_balance_end |-> 0,
      _weth_balance_start |-> 0, _weth_balance_end |-> 0,
      _ousd_lp_start |-> 0, _ousd_lp_end |-> 0,
      _usdt_lp_start |-> 0, _usdt_lp_end |-> 0,
      _usdc_lp_start |-> 0, _usdc_lp_end |-> 0,
      _weth_lp_start |-> 0, _weth_lp_end |-> 0,
      _usdt_swaps |-> <<>>, _usdc_swaps |-> <<>>, _weth_swaps |-> <<>>,
      _virgox_proceeds |-> <<>> ]

_eth_to_usd(self, eth_value) == eth_value * self.params.eth_value_usd

add_ousd_balance_start(self, bal) ==
    [self EXCEPT !._ousd_balance_start = @ + int(bal)]
add_ousd_balance_end(self, bal) ==
    [self EXCEPT !._ousd_balance_end = @ + int(bal)]
add_usdt_balance_start(self, val) ==
    [self EXCEPT !._usdt_balance_start = @ + int(val)]
add_usdt_balance_end(self, val) ==
    [self EXCEPT !._usdt_balance_end = @ + int(val)]
add_usdc_balance_start(self, val) ==
    [self EXCEPT !._usdc_balance_start = @ + int(val)]
add_usdc_balance_end(self, val) ==
    [self EXCEPT !._usdc_balance_end = @ + int(val)]
add_weth_balance_start(self, val) ==
    [self EXCEPT !._weth_balance_start = @ + int(val)]
add_weth_balance_end(self, val) ==
    [self EXCEPT !._weth_balance_end = @ + int(val)]
\* Mutant: the pooled position is assigned, not added to
add_ousd_lp_start_replaces(self, bal) ==
    [self EXCEPT !._ousd_lp_start = int(bal)]
add_ousd_lp_start(self, bal) ==
    [self EXCEPT !._ousd_lp_start = @ + int(bal)]
add_ousd_lp_end(self, bal) ==
    [self EXCEPT !._ousd_lp_end = @ + int(bal)]
add_usdt_lp_start(self, val) ==
    [self EXCEPT !._usdt_lp_start = @ + int(val)]
add_usdt_lp_end(self, val) ==
    [self EXCEPT !._usdt_lp_end = @ + int(val)]
add_usdc_lp_start(self, val) ==
    [self EXCEPT !._usdc_lp_start = @ + int(val)]
add_usdc_lp_end(self, val) ==
    [self EXCEPT !._usdc_lp_end = @ + int(val)]
add_weth_lp_start(self, val) ==
    [self EXCEPT !._weth_lp_start = @ + int(val)]
add_weth_lp_end(self, val) ==
    [self EXCEPT !._weth_lp_end = @ + int(val)]

\* Swaps are tuples <<ousd_value, counter_asset_value, direction>>
add_usdt_swap(self, swap) ==
    [self EXCEPT !._usdt_swaps = Append(@, swap)]
add_usdc_swap(self, swap) ==
    [self EXCEPT !._usdc_swaps = Append(@, swap)]
add_weth_swap(self, swap) ==
    [self EXCEPT !._weth_swaps = Append(@, swap)]
add_virgox_proceed_replaces(self, usd_proceeds) ==
    [self EXCEPT !._virgox_proceeds = <<usd_proceeds>>]
add_virgox_proceed(self, usd_proceeds) ==
    [self EXCEPT !._virgox_proceeds = Append(@, usd_proceeds)]

\* sum([int(x[1]) if x[2] == direction else 0 for x in swaps])
swap_sum(swaps, direction) ==
    sum([i \in 1..Len(swaps) |->
            IF swaps[i][3] = direction THEN int(swaps[i][2]) ELSE 0])

usdt_swap_in(self)  == swap_sum(self._usdt_swaps, RIGHT)
usdt_swap_out(self) == swap_sum(self._usdt_swaps, LEFT)
usdc_swap_in(self)  == swap_sum(self._usdc_swaps, RIGHT)
usdc_swap_out(self) == swap_sum(self._usdc_swaps, LEFT)
weth_swap_in(self)  == swap_sum(self._weth_swaps, RIGHT)
weth_swap_out(self) == swap_sum(self._weth_swaps, LEFT)

trading_gain_usdt(self) ==
    IF self._ousd_balance_start + self._ousd_lp_start <= 0
    THEN 0
    ELSE usdt_swap_in(self) - usdt_swap_out(self)

trading_gain_usdc(self) ==
    IF self._ousd_balance_start + self._ousd_lp_start <= 0
    THEN 0
    ELSE usdc_swap_in(self) - usdc_swap_out(self)

\* Mutant: the WETH flow is counted without a pre-incident position
trading_gain_weth_unguarded(self) ==
    weth_swap_in(self) - weth_swap_out(self)
trading_gain_weth(self) ==
    IF self._ousd_balance_start + self._ousd_lp_start <= 0
    THEN 0
    ELSE weth_swap_in(self) - weth_swap_out(self)

trading_gain_virgox(self) ==
    IF self._virgox_proceeds = <<>> THEN 0 ELSE sum(self._virgox_proceeds)

convert_decimals(val, decin, decout) == val * pow(10, decout - decin)

\* Mutant: the stablecoin flows are added without scaling their decimals
trading_gain_total_usd_unscaled(self) ==
      trading_gain_usdt(self)
    + trading_gain_usdc(self)
    + _eth_to_usd(self, trading_gain_weth(self))
    + trading_gain_virgox(self)
trading_gain_total_usd(self) ==
      convert_decimals(trading_gain_usdt(self), STABLE_DECIMALS, USD_DECIMALS)
    + convert_decimals(trading_gain_usdc(self), STABLE_DECIMALS, USD_DECIMALS)
    + _eth_to_usd(self, trading_gain_weth(self))
    + trading_gain_virgox(self)

\* Mutant: the balance after the incident is counted as well
eligible_balance_usd_with_end_balance(self) ==
    LET diff == self._ousd_balance_start
                + self._ousd_lp_start
                + self._ousd_balance_end
                - max(trading_gain_total_usd(self), 0)
    IN  IF diff < self.params.minimum_threshold THEN 0 ELSE diff
\* Mutant: a net trading loss is subtracted too (no max(..., 0))
eligible_balance_usd_no_max(self) ==
    LET diff == self._ousd_balance_start
                + self._ousd_lp_start
                - trading_gain_total_usd(self)
    IN  IF diff < self.params.minimum_threshold THEN 0 ELSE diff
eligible_balance_usd(self) ==
    LET diff == self._ousd_balance_start
                + self._ousd_lp_start
                - max(trading_gain_total_usd(self), 0)
    IN  IF diff < self.params.minimum_threshold THEN 0 ELSE diff

\* Mutant: below the threshold the threshold itself is returned
adjusted_ousd_compensation_threshold(self) ==
    LET eligible == eligible_balance_usd(self)
        above_split == eligible - self.params.split_threshold
        den == self.params.ousd_ogn_split[2]
    IN  IF eligible <= self.params.split_threshold
        THEN self.params.split_threshold
        ELSE (self.params.split_threshold * den
                + above_split * self.params.ousd_ogn_split[1]) \div den

\* Mutant: round() in place of floor()
adjusted_ousd_compensation_round(self) ==
    LET eligible == eligible_balance_usd(self)
        above_split == eligible - self.params.split_threshold
        den == self.params.ousd_ogn_split[2]
    IN  IF eligible <= self.params.split_threshold
        THEN eligible
        ELSE (2 * (self.params.split_threshold * den
                    + above_split * self.params.ousd_ogn_split[1]) + den)
                \div (2 * den)
adjusted_ousd_compensation(self) ==
    LET eligible == eligible_balance_usd(self)
        above_split == eligible - self.params.split_threshold
        den == self.params.ousd_ogn_split[2]
    IN  IF eligible <= self.params.split_threshold
        THEN eligible
        ELSE \* floor(split_threshold + above_split * ousd_ogn_split)
             (self.params.split_threshold * den
                + above_split * self.params.ousd_ogn_split[1]) \div den

\* Mutant: the split ratio is applied to the whole eligible balance
ogn_usd_value_of_eligible(self) ==
    LET eligible == eligible_balance_usd(self)
    IN  eligible - floor_mul(eligible, self.params.ousd_ogn_split)
\* The OGN side of the original OUSD value split (ogn_usd_value)
ogn_usd_value(self) ==
    LET above_split == eligible_balance_usd(self) - self.params.split_threshold
    IN  above_split - floor_mul(above_split, self.params.ousd_ogn_split)

\* The "Sanity check" assertion of adjusted_ogn_compensation
sanity_check(self) ==
    ogn_usd_value(self) + adjusted_ousd_compensation(self)
        = eligible_balance_usd(self)

\* Mutant: floor() is taken before the value is scaled to 18 decimals
adjusted_ogn_compensation_floor_first(self) ==
    IF eligible_balance_usd(self) <= self.params.split_threshold
    THEN 0
    ELSE (ogn_usd_value(self) \div self.params.ogn_price_usd) * WAD
\* The value adjusted_ogn_compensation returns when its assertion passes
adjusted_ogn_compensation(self) ==
    IF eligible_balance_usd(self) <= self.params.split_threshold
    THEN 0
    ELSE \* floor(ogn_usd_value / ogn_price_usd * Decimal(1e18))
         (ogn_usd_value(self) * WAD) \div self.params.ogn_price_usd

\* Whether evaluating adjusted_ogn_compensation raises AssertionError
ogn_compensation_raises(self) ==
    /\ eligible_balance_usd(self) > self.params.split_threshold
    /\ ~sanity_check(self)

\* to_list(): the three raw values of the row, or the AssertionError
to_list(self) ==
    IF ogn_compensation_raises(self)
    THEN [ raised |-> TRUE, address |-> self.address,
           eligible |-> 0, ousd |-> 0, ogn |-> 0 ]
    ELSE [ raised   |-> FALSE,
           address  |-> self.address,
           eligible |-> eligible_balance_usd(self),
           ousd     |-> adjusted_ousd_compensation(self),
           ogn      |-> adjusted_ogn_compensation(self) ]

(***************************************************************************)
(* SpecAccount: any sequence of accumulation calls on one Account.         *)
(* SpecSplit: the calls that eligibility reads, then to_list(), under      *)
(* every parameter object of ParamChoices.                                 *)
(***************************************************************************)
\* The arguments the calls are made with (a CSV cell is a decimal numeral).
Balances      == { <<1, 0, 0, 0>>, <<1, 5, 0, 3>> }
OtherBalances == { <<6, 0, 1>> }
SwapValues    == { <<1>>, <<3, 0>> }
Token0Amounts == { <<7>> }
Directions    == { LEFT, RIGHT }
Proceeds      == { 45, 200 }
Swaps         == Token0Amounts \X SwapValues \X Directions
TheAddress    == "0xAb"

BalanceMethods ==
    { "add_ousd_balance_start", "add_ousd_balance_end",
      "add_usdt_balance_start", "add_usdt_balance_end",
      "add_usdc_balance_start", "add_usdc_balance_end",
      "add_weth_balance_start", "add_weth_balance_end",
      "add_ousd_lp_start", "add_ousd_lp_end",
      "add_usdt_lp_start", "add_usdt_lp_end",
      "add_usdc_lp_start", "add_usdc_lp_end",
      "add_weth_lp_start", "add_weth_lp_end" }
SwapMethods == { "add_usdt_swap", "add_usdc_swap", "add_weth_swap" }
Methods == BalanceMethods \cup SwapMethods \cup { "add_virgox_proceed" }

\* The arguments method m is called with.  The pre-incident OUSD balance and
\* pooled position, which the results read, take two values.
ArgsOf(m) ==
    IF m \in SwapMethods THEN Swaps
    ELSE IF m = "add_virgox_proceed" THEN Proceeds
    ELSE IF m \in { "add_ousd_balance_start", "add_ousd_lp_start" } THEN Balances
    ELSE OtherBalances

\* A call of method m with argument arg that leaves the account as new
Called(m, arg, new) ==
    /\ out = <<>>
    /\ ncalls < MaxCalls
    /\ acct' = new
    /\ calls' = [calls EXCEPT ![m][arg] = @ + 1]
    /\ ncalls' = ncalls + 1
    /\ UNCHANGED <<params, out, ledger_vars, extractor_vars>>

\* The ledger before main() has read a row
NoLedger ==
    /\ accounts = <<>>
    /\ blacklist = {}
    /\ pc = "ousd_balances_start"
    /\ nrows = 0
    /\ referenced = {}

\* No extractor runs
NoExtractor ==
    /\ chain = [protocol |-> "none"]
    /\ run = [pc |-> "none"]

InitAccount ==
    /\ params \in { DefaultParams, MainParams }
    /\ acct = Account(TheAddress, params)
    /\ calls = [m \in Methods |-> [arg \in ArgsOf(m) |-> 0]]
    /\ ncalls = 0
    /\ out = <<>>
    /\ NoLedger
    /\ NoExtractor

AddOusdBalanceStart == \E v \in ArgsOf("add_ousd_balance_start") :
    Called("add_ousd_balance_start", v, add_ousd_balance_start(acct, v))
AddOusdBalanceEnd == \E v \in ArgsOf("add_ousd_balance_end") :
    Called("add_ousd_balance_end", v, add_ousd_balance_end(acct, v))
AddOusdLpStart == \E v \in ArgsOf("add_ousd_lp_start") :
    Called("add_ousd_lp_start", v, add_ousd_lp_start(acct, v))
AddOusdLpEnd == \E v \in ArgsOf("add_ousd_lp_end") :
    Called("add_ousd_lp_end", v, add_ousd_lp_end(acct, v))
AddUsdtBalanceStart == \E v \in ArgsOf("add_usdt_balance_start") :
    Called("add_usdt_balance_start", v, add_usdt_balance_start(acct, v))
AddUsdtBalanceEnd == \E v \in ArgsOf("add_usdt_balance_end") :
    Called("add_usdt_balance_end", v, add_usdt_balance_end(acct, v))
AddUsdtLpStart == \E v \in ArgsOf("add_usdt_lp_start") :
    Called("add_usdt_lp_start", v, add_usdt_lp_start(acct, v))
AddUsdtLpEnd == \E v \in ArgsOf("add_usdt_lp_end") :
    Called("add_usdt_lp_end", v, add_usdt_lp_end(acct, v))
AddUsdcBalanceStart == \E v \in ArgsOf("add_usdc_balance_start") :
    Called("add_usdc_balance_start", v, add_usdc_balance_start(acct, v))
AddUsdcBalanceEnd == \E v \in ArgsOf("add_usdc_balance_end") :
    Called("add_usdc_balance_end", v, add_usdc_balance_end(acct, v))
AddUsdcLpStart == \E v \in ArgsOf("add_usdc_lp_start") :
    Called("add_usdc_lp_start", v, add_usdc_lp_start(acct, v))
AddUsdcLpEnd == \E v \in ArgsOf("add_usdc_lp_end") :
    Called("add_usdc_lp_end", v, add_usdc_lp_end(acct, v))
AddWethBalanceStart == \E v \in ArgsOf("add_weth_balance_start") :
    Called("add_weth_balance_start", v, add_weth_balance_start(acct, v))
AddWethBalanceEnd == \E v \in ArgsOf("add_weth_balance_end") :
    Called("add_weth_balance_end", v, add_weth_balance_end(acct, v))
AddWethLpStart == \E v \in ArgsOf("add_weth_lp_start") :
    Called("add_weth_lp_start", v, add_weth_lp_start(acct, v))
AddWethLpEnd == \E v \in ArgsOf("add_weth_lp_end") :
    Called("add_weth_lp_end", v, add_weth_lp_end(acct, v))
AddUsdtSwap == \E swap \in ArgsOf("add_usdt_swap") :
    Called("add_usdt_swap", swap, add_usdt_swap(acct, swap))
AddUsdcSwap == \E swap \in ArgsOf("add_usdc_swap") :
    Called("add_usdc_swap", swap, add_usdc_swap(acct, swap))
AddWethSwap == \E swap \in ArgsOf("add_weth_swap") :
    Called("add_weth_swap", swap, add_weth_swap(acct, swap))
AddVirgoxProceed == \E usd_proceeds \in ArgsOf("add_virgox_proceed") :
    Called("add_virgox_proceed", usd_proceeds, add_virgox_proceed(acct, usd_proceeds))

\* to_list() on the account, once the calls are made
ToList ==
    /\ out = <<>>
    /\ out' = <<to_list(acct)>>
    /\ UNCHANGED <<params, account_vars, ledger_vars, extractor_vars>>

NextAccount ==
    \/ AddOusdBalanceStart
    \/ AddOusdBalanceEnd
    \/ AddOusdLpStart
    \/ AddOusdLpEnd
    \/ AddUsdtBalanceStart
    \/ AddUsdtBalanceEnd
    \/ AddUsdtLpStart
    \/ AddUsdtLpEnd
    \/ AddUsdcBalanceStart
    \/ AddUsdcBalanceEnd
    \/ AddUsdcLpStart
    \/ AddUsdcLpEnd
    \/ AddWethBalanceStart
    \/ AddWethBalanceEnd
    \/ AddWethLpStart
    \/ AddWethLpEnd
    \/ AddUsdtSwap
    \/ AddUsdcSwap
    \/ AddWethSwap
    \/ AddVirgoxProceed

SpecAccount == InitAccount /\ [][NextAccount]_vars

InitSplit ==
    /\ params \in ParamChoices
    /\ acct = Account(TheAddress, params)
    /\ calls = [m \in Methods |-> [arg \in ArgsOf(m) |-> 0]]
    /\ ncalls = 0
    /\ out = <<>>
    /\ NoLedger
    /\ NoExtractor

NextSplit ==
    \/ AddOusdBalanceStart
    \/ AddOusdLpStart
    \/ AddWethSwap
    \/ AddVirgoxProceed
    \/ ToList

SpecSplit == InitSplit /\ [][NextSplit]_vars

(***************************************************************************)
(* Spec: main().  The ledger is filled from the rows of the CSV files, in  *)
(* the order main() reads the files, and the output is written.            *)
(***************************************************************************)
USDT_ADDRESS == "0xdAC1"
USDC_ADDRESS == "0xA0b8"
WETH_ADDRESS == "0xC02a"
\* The token1 cells of a row: the three known tokens and another one
Tokens == { USDT_ADDRESS, USDC_ADDRESS, WETH_ADDRESS, "0x6B17" }

\* The address cells of a row: two addresses in checksum case, and the first
\* of them in lower case
RawAddresses == { "0xab", "0xAb", "0xCd" }
\* Web3.toChecksumAddress
toChecksumAddress(address) == IF address = "0xab" THEN "0xAb" ELSE address

\* The files of main(), in the order it reads them
Files ==
    << "ousd_balances_start", "ousd_balances_end",
       "uniswap_lp_start", "uniswap_lp_end",
       "sushiswap_lp_start", "sushiswap_lp_end",
       "mooniswap_lp_start", "mooniswap_lp_end",
       "snowswap_stakers_start", "snowswap_stakers_end",
       "virgox_proceeds",
       "uniswap_swaps", "sushiswap_swaps", "mooniswap_swaps" >>
LpStartFiles == { "uniswap_lp_start", "sushiswap_lp_start", "mooniswap_lp_start" }
LpEndFiles   == { "uniswap_lp_end", "sushiswap_lp_end", "mooniswap_lp_end" }
SwapFiles    == { "uniswap_swaps", "sushiswap_swaps", "mooniswap_swaps" }

\* The rows of the LP files (token1, lp_address, token0_value, token1_value)
LpRows ==
    [ token1 : Tokens, lp_address : RawAddresses,
      token0_value : { <<1, 0, 0, 0>> }, token1_value : OtherBalances ]
\* The rows of the swap files
SwapRows ==
    [ token1 : Tokens, in_address : RawAddresses, out_address : { "0xCd" },
      swap_direction : { "buy", "sell" },
      token0_amount : Token0Amounts, token1_amount : { <<3, 0>> } ]
\* The usd_proceeds cells of the VirgoX file, <<units, hundredths>>
UsdProceeds == { <<0, 45>>, <<2, 0>> }
\* int(Decimal(usd_proceeds) * Decimal(1e18))
proceeds_to_int(usd_proceeds) ==
    ((usd_proceeds[1] * 100 + usd_proceeds[2]) * WAD) \div 100

\* A dict is the sequence of its values in insertion order; the key of an
\* Account is its address.
keys(accounts_dict) ==
    { accounts_dict[i].address : i \in 1..Len(accounts_dict) }
index(accounts_dict, address) ==
    CHOOSE i \in 1..Len(accounts_dict) : accounts_dict[i].address = address
getitem(accounts_dict, address) ==
    accounts_dict[index(accounts_dict, address)]
setitem(accounts_dict, address, value) ==
    [accounts_dict EXCEPT ![index(accounts_dict, address)] = value]

create_account_if_not_exists_overwrites(accounts_dict, address, p) ==
    LET checksum == toChecksumAddress(address) IN
    IF checksum \notin keys(accounts_dict)
    THEN Append(accounts_dict, Account(checksum, p))
    ELSE setitem(accounts_dict, checksum, Account(checksum, p))
create_account_if_not_exists(accounts_dict, address, p) ==
    LET checksum == toChecksumAddress(address) IN
    IF checksum \notin keys(accounts_dict)
    THEN Append(accounts_dict, Account(checksum, p))
    ELSE accounts_dict

\* What handling one row leaves: the ledger, and "ok" or the exception
Handled(accounts_dict, status) ==
    [ accounts |-> accounts_dict, status |-> status ]

\* One turn of the loop over account_balances_before
balance_start_row(accounts_dict, p, address, ousd_balance) ==
    LET created == create_account_if_not_exists(accounts_dict, address, p) IN
    IF address \notin keys(created)
    THEN Handled(created, "KeyError")
    ELSE Handled(setitem(created, address,
            add_ousd_balance_start(getitem(created, address), ousd_balance)), "ok")

\* One turn of the loop over account_balances_after
balance_end_row(accounts_dict, p, address, ousd_balance) ==
    LET created == create_account_if_not_exists(accounts_dict, address, p) IN
    IF address \notin keys(created)
    THEN Handled(created, "KeyError")
    ELSE Handled(setitem(created, address,
            add_ousd_balance_end(getitem(created, address), ousd_balance)), "ok")

\* One turn of the loop of process_uniswap_lp_data
process_uniswap_lp_data(accounts_dict, p, lp, is_start) ==
    LET created == create_account_if_not_exists(accounts_dict, lp.lp_address, p) IN
    IF lp.lp_address \notin keys(created)
    THEN Handled(created, "KeyError")
    ELSE
    LET self == getitem(created, lp.lp_address)
        ousd == IF is_start THEN add_ousd_lp_start(self, lp.token0_value)
                ELSE add_ousd_lp_end(self, lp.token0_value)
    IN  IF lp.token1 = USDT_ADDRESS
        THEN Handled(setitem(created, lp.lp_address,
                IF is_start THEN add_usdt_lp_start(ousd, lp.token1_value)
                ELSE add_usdt_lp_end(ousd, lp.token1_value)), "ok")
        ELSE IF lp.token1 = USDC_ADDRESS
        THEN Handled(setitem(created, lp.lp_address,
                IF is_start THEN add_usdc_lp_start(ousd, lp.token1_value)
                ELSE add_usdc_lp_end(ousd, lp.token1_value)), "ok")
        ELSE IF lp.token1 = WETH_ADDRESS
        THEN Handled(setitem(created, lp.lp_address,
                IF is_start THEN add_weth_lp_start(ousd, lp.token1_value)
                ELSE add_weth_lp_end(ousd, lp.token1_value)), "ok")
        ELSE Handled(setitem(created, lp.lp_address, ousd), "SystemExit")

\* One turn of the loop of process_uniswap_swap_data
process_uniswap_swap_data_skips_unknown(accounts_dict, p, swap) ==
    LET created == create_account_if_not_exists(
                       create_account_if_not_exists(accounts_dict, swap.in_address, p),
                       swap.out_address, p)
    IN  Handled(created, IF swap.in_address \notin keys(created) THEN "KeyError"
                         ELSE "ok")
process_uniswap_swap_data(accounts_dict, p, swap) ==
    LET created == create_account_if_not_exists(
                       create_account_if_not_exists(accounts_dict, swap.in_address, p),
                       swap.out_address, p)
        direction == IF swap.swap_direction = "buy" THEN LEFT ELSE RIGHT
        tuple == <<swap.token0_amount, swap.token1_amount, direction>>
    IN  IF swap.token1 \notin { USDT_ADDRESS, USDC_ADDRESS, WETH_ADDRESS }
        THEN Handled(created, "SystemExit")
        ELSE IF swap.in_address \notin keys(created)
        THEN Handled(created, "KeyError")
        ELSE
        LET self == getitem(created, swap.in_address) IN
        Handled(setitem(created, swap.in_address,
            IF swap.token1 = USDT_ADDRESS THEN add_usdt_swap(self, tuple)
            ELSE IF swap.token1 = USDC_ADDRESS THEN add_usdc_swap(self, tuple)
            ELSE add_weth_swap(self, tuple)), "ok")

\* One turn of the loop over snowswap_staker_balances_before
stake_start_row(accounts_dict, p, staker_address, ratioed_ousd_balance) ==
    LET created == create_account_if_not_exists(accounts_dict, staker_address, p) IN
    IF staker_address \notin keys(created)
    THEN Handled(created, "KeyError")
    ELSE Handled(setitem(created, staker_address,
            add_ousd_balance_start(getitem(created, staker_address),
                                   ratioed_ousd_balance)), "ok")

\* One turn of the loop over snowswap_staker_balances_after
stake_end_row(accounts_dict, p, staker_address, ratioed_ousd_balance) ==
    LET created == create_account_if_not_exists(accounts_dict, staker_address, p) IN
    IF staker_address \notin keys(created)
    THEN Handled(created, "KeyError")
    ELSE Handled(setitem(created, staker_address,
            add_ousd_balance_end(getitem(created, staker_address),
                                 ratioed_ousd_balance)), "ok")

\* One turn of the loop over virgox_proceeds: the address is put in checksum
\* case before it is used
virgox_row(accounts_dict, p, raw_address, usd_proceeds) ==
    LET address == toChecksumAddress(raw_address)
        created == create_account_if_not_exists(accounts_dict, address, p)
    IN  Handled(setitem(created, address,
            add_virgox_proceed(getitem(created, address),
                               proceeds_to_int(usd_proceeds))), "ok")

\* The accounts main() prints, in the order of accounts.keys()
printed_accounts(accounts_dict, blacklisted) ==
    SelectSeq(accounts_dict,
              LAMBDA a : a.address \notin blacklisted /\ eligible_balance_usd(a) # 0)

\* The file main() reads after file, or the output
file_after(file) ==
    LET i == CHOOSE j \in 1..Len(Files) : Files[j] = file
    IN  IF i < Len(Files) THEN Files[i + 1] ELSE "output"

Init ==
    /\ params = MainParams
    /\ accounts = <<>>
    /\ blacklist \in { {}, { "0xCd" } }
    /\ pc = Files[1]
    /\ nrows = 0
    /\ referenced = {}
    /\ out = <<>>
    /\ acct = Account(TheAddress, params)
    /\ calls = [m \in Methods |-> [arg \in ArgsOf(m) |-> 0]]
    /\ ncalls = 0
    /\ NoExtractor

\* A row of one of the files is read; it names addresses and leaves handled
ReadRow(files, addresses, handled) ==
    /\ pc \in files
    /\ nrows < MaxRows
    /\ accounts' = handled.accounts
    /\ pc' = IF handled.status = "ok" THEN pc ELSE handled.status
    /\ nrows' = nrows + 1
    /\ referenced' = referenced \cup { toChecksumAddress(a) : a \in addresses }
    /\ UNCHANGED <<params, blacklist, out, account_vars, extractor_vars>>

BalanceStartRow == \E address \in RawAddresses, ousd_balance \in Balances :
    ReadRow({ "ousd_balances_start" }, { address },
            balance_start_row(accounts, params, address, ousd_balance))
BalanceEndRow == \E address \in RawAddresses, ousd_balance \in OtherBalances :
    ReadRow({ "ousd_balances_end" }, { address },
            balance_end_row(accounts, params, address, ousd_balance))
LpStartRow == \E lp \in LpRows :
    ReadRow(LpStartFiles, { lp.lp_address },
            process_uniswap_lp_data(accounts, params, lp, TRUE))
LpEndRow == \E lp \in LpRows :
    ReadRow(LpEndFiles, { lp.lp_address },
            process_uniswap_lp_data(accounts, params, lp, FALSE))
StakeStartRow == \E staker_address \in RawAddresses, ratioed \in Balances :
    ReadRow({ "snowswap_stakers_start" }, { staker_address },
            stake_start_row(accounts, params, staker_address, ratioed))
StakeEndRow == \E staker_address \in RawAddresses, ratioed \in OtherBalances :
    ReadRow({ "snowswap_stakers_end" }, { staker_address },
            stake_end_row(accounts, params, staker_address, ratioed))
VirgoxRow == \E address \in RawAddresses, usd_proceeds \in UsdProceeds :
    ReadRow({ "virgox_proceeds" }, { address },
            virgox_row(accounts, params, address, usd_proceeds))
SwapRow == \E swap \in SwapRows :
    ReadRow(SwapFiles, { swap.in_address, swap.out_address },
            process_uniswap_swap_data(accounts, params, swap))

\* The loop over the file at hand ends
EndOfFile ==
    /\ pc \in { Files[i] : i \in 1..Len(Files) }
    /\ pc' = file_after(pc)
    /\ UNCHANGED <<params, accounts, blacklist, nrows, referenced, out, account_vars,
                   extractor_vars>>

\* The CSV output: a row per account to print, up to the first one whose
\* to_csv_row() raises
Output ==
    /\ pc = "output"
    /\ LET rows == printed_accounts(accounts, blacklist)
           raising == { i \in 1..Len(rows) : ogn_compensation_raises(rows[i]) }
           n == IF raising = {} THEN Len(rows)
                ELSE (CHOOSE i \in raising : \A j \in raising : i <= j) - 1
       IN  /\ out' = [i \in 1..n |-> to_list(rows[i])]
           /\ pc' = IF raising = {} THEN "done" ELSE "AssertionError"
    /\ UNCHANGED <<params, accounts, blacklist, nrows, referenced, account_vars,
                   extractor_vars>>

Next ==
    \/ BalanceStartRow
    \/ BalanceEndRow
    \/ LpStartRow
    \/ LpEndRow
    \/ StakeStartRow
    \/ StakeEndRow
    \/ VirgoxRow
    \/ SwapRow
    \/ EndOfFile
    \/ Output

Spec == Init /\ [][Next]_vars
(***************************************************************************)
(* Properties of one Account (SpecAccount, SpecSplit)                      *)
(***************************************************************************)
\* What the history says: the sum of int(arg) over the calls of method m
RECURSIVE HistSumOver(_, _)
HistSumOver(m, args) ==
    IF args = {} THEN 0
    ELSE LET a == CHOOSE x \in args : TRUE
         IN  int(a) * calls[m][a] + HistSumOver(m, args \ {a})
HistSum(m) == HistSumOver(m, ArgsOf(m))

\* ... the sum of the counter-asset amounts of the recorded swaps of one direction
RECURSIVE HistSwapSumOver(_, _, _)
HistSwapSumOver(m, direction, sws) ==
    IF sws = {} THEN 0
    ELSE LET sw == CHOOSE x \in sws : TRUE
         IN  (IF sw[3] = direction THEN int(sw[2]) * calls[m][sw] ELSE 0)
             + HistSwapSumOver(m, direction, sws \ {sw})
HistSwapSum(m, direction) == HistSwapSumOver(m, direction, Swaps)

\* ... the sum of the proceeds recorded
RECURSIVE HistProceedsOver(_)
HistProceedsOver(ps) ==
    IF ps = {} THEN 0
    ELSE LET q == CHOOSE x \in ps : TRUE
         IN  q * calls["add_virgox_proceed"][q] + HistProceedsOver(ps \ {q})
HistProceeds == HistProceedsOver(Proceeds)

\* The pre-incident base balance plus the pre-incident pooled position
PreIncident == HistSum("add_ousd_balance_start") + HistSum("add_ousd_lp_start")

\* netSwapFlow of a counter-asset, from the history
NetSwapFlow(m) ==
    IF PreIncident > 0
    THEN HistSwapSum(m, RIGHT) - HistSwapSum(m, LEFT)
    ELSE 0

Reported == out # <<>>
Eligible == eligible_balance_usd(acct)
SplitThreshold == acct.params.split_threshold
AboveSplit == Eligible - SplitThreshold
SplitNum == acct.params.ousd_ogn_split[1]
SplitDen == acct.params.ousd_ogn_split[2]
\* floor(aboveSplit * splitRatio)
PrimaryAboveSplit == (AboveSplit * SplitNum) \div SplitDen
SecondaryUsdValue == AboveSplit - PrimaryAboveSplit
\* The split leaves a fraction for floor() to drop
SplitIsFractional == (AboveSplit * SplitNum) % SplitDen # 0

C2_BelowThresholdAllPrimary ==
    Eligible <= SplitThreshold =>
        /\ adjusted_ousd_compensation(acct) = Eligible
        /\ adjusted_ogn_compensation(acct) = 0
        /\ \A i \in 1..Len(out) :
              ~out[i].raised /\ out[i].ousd = Eligible /\ out[i].ogn = 0

C2_Witness ==
    /\ Reported
    /\ Eligible = SplitThreshold
    /\ Eligible > 0
    /\ out[1].ousd = Eligible

C6_NetSwapFlow ==
    /\ trading_gain_usdt(acct) = NetSwapFlow("add_usdt_swap")
    /\ trading_gain_usdc(acct) = NetSwapFlow("add_usdc_swap")
    /\ trading_gain_weth(acct) = NetSwapFlow("add_weth_swap")

\* Sells and buys are recorded and net to a nonzero flow
C6_Witness ==
    /\ PreIncident > 0
    /\ HistSwapSum("add_weth_swap", RIGHT) > 0
    /\ HistSwapSum("add_weth_swap", LEFT) > 0
    /\ trading_gain_weth(acct) < 0

FieldOf(self, m) ==
    CASE m = "add_ousd_balance_start" -> self._ousd_balance_start
      [] m = "add_ousd_balance_end"   -> self._ousd_balance_end
      [] m = "add_usdt_balance_start" -> self._usdt_balance_start
      [] m = "add_usdt_balance_end"   -> self._usdt_balance_end
      [] m = "add_usdc_balance_start" -> self._usdc_balance_start
      [] m = "add_usdc_balance_end"   -> self._usdc_balance_end
      [] m = "add_weth_balance_start" -> self._weth_balance_start
      [] m = "add_weth_balance_end"   -> self._weth_balance_end
      [] m = "add_ousd_lp_start"      -> self._ousd_lp_start
      [] m = "add_ousd_lp_end"        -> self._ousd_lp_end
      [] m = "add_usdt_lp_start"      -> self._usdt_lp_start
      [] m = "add_usdt_lp_end"        -> self._usdt_lp_end
      [] m = "add_usdc_lp_start"      -> self._usdc_lp_start
      [] m = "add_usdc_lp_end"        -> self._usdc_lp_end
      [] m = "add_weth_lp_start"      -> self._weth_lp_start
      [] m = "add_weth_lp_end"        -> self._weth_lp_end

\* The list of the account that list method m appends to
ListOf(self, m) ==
    CASE m = "add_usdt_swap"      -> self._usdt_swaps
      [] m = "add_usdc_swap"      -> self._usdc_swaps
      [] m = "add_weth_swap"      -> self._weth_swaps
      [] m = "add_virgox_proceed" -> self._virgox_proceeds

Occurrences(list, x) == Cardinality({i \in 1..Len(list) : list[i] = x})

\* C8: every accumulation method is additive: after any sequence of calls
\* each balance field is the sum of all values passed to its method, and each
\* swap or proceeds list holds every value passed, as often as it was passed.
C8_AccumulationIsAdditive ==
    /\ \A m \in BalanceMethods : FieldOf(acct, m) = HistSum(m)
    /\ \A m \in Methods \ BalanceMethods :
          \A arg \in ArgsOf(m) : Occurrences(ListOf(acct, m), arg) = calls[m][arg]

\* A repeated call, and a field two methods' worth of calls went into
C8_Witness ==
    /\ \E arg \in Balances : calls["add_ousd_lp_start"][arg] >= 2
    /\ acct._ousd_lp_start >= 2000
    /\ \E m \in SwapMethods : Len(ListOf(acct, m)) >= 1

(***************************************************************************)
(* Properties of the ledger (Spec)                                         *)
(***************************************************************************)
\* C9: the ledger map only grows.  Every address a row read so far names has
\* an entry (it was created at the first reference and was not deleted since),
\* there is one entry per address and none for an address no row names, and
\* create_account_if_not_exists on an address already present, however the
\* row spells it, leaves the ledger with all accumulated values as it is.
C9_LedgerOnlyGrows ==
    /\ referenced \subseteq keys(accounts)
    /\ keys(accounts) \subseteq referenced
    /\ Cardinality(keys(accounts)) = Len(accounts)
    /\ \A address \in RawAddresses :
          toChecksumAddress(address) \in keys(accounts)
              => create_account_if_not_exists(accounts, address, params) = accounts

\* Two rows from different data sources named the same address: the entry
\* the first created holds what both accumulated
C9_Witness ==
    /\ nrows = 2
    /\ Len(accounts) = 1
    /\ accounts[1]._ousd_balance_start > 0
    /\ accounts[1]._virgox_proceeds # <<>>

(***************************************************************************)
(* Order of the accumulation calls (SpecAccount)                           *)
(***************************************************************************)
\* Method m called on self with arg
Apply(m, self, arg) ==
    CASE m = "add_ousd_balance_start" -> add_ousd_balance_start(self, arg)
      [] m = "add_ousd_balance_end"   -> add_ousd_balance_end(self, arg)
      [] m = "add_usdt_balance_start" -> add_usdt_balance_start(self, arg)
      [] m = "add_usdt_balance_end"   -> add_usdt_balance_end(self, arg)
      [] m = "add_usdc_balance_start" -> add_usdc_balance_start(self, arg)
      [] m = "add_usdc_balance_end"   -> add_usdc_balance_end(self, arg)
      [] m = "add_weth_balance_start" -> add_weth_balance_start(self, arg)
      [] m = "add_weth_balance_end"   -> add_weth_balance_end(self, arg)
      [] m = "add_ousd_lp_start"      -> add_ousd_lp_start(self, arg)
      [] m = "add_ousd_lp_end"        -> add_ousd_lp_end(self, arg)
      [] m = "add_usdt_lp_start"      -> add_usdt_lp_start(self, arg)
      [] m = "add_usdt_lp_end"        -> add_usdt_lp_end(self, arg)
      [] m = "add_usdc_lp_start"      -> add_usdc_lp_start(self, arg)
      [] m = "add_usdc_lp_end"        -> add_usdc_lp_end(self, arg)
      [] m = "add_weth_lp_start"      -> add_weth_lp_start(self, arg)
      [] m = "add_weth_lp_end"        -> add_weth_lp_end(self, arg)
      [] m = "add_usdt_swap"          -> add_usdt_swap(self, arg)
      [] m = "add_usdc_swap"          -> add_usdc_swap(self, arg)
      [] m = "add_weth_swap"          -> add_weth_swap(self, arg)
      [] m = "add_virgox_proceed"     -> add_virgox_proceed(self, arg)

\* The calls of the history made again in one fixed order: method by method,
\* argument by argument, each as often as it was made
RECURSIVE Repeat(_, _, _, _)
Repeat(m, self, arg, n) ==
    IF n = 0 THEN self ELSE Repeat(m, Apply(m, self, arg), arg, n - 1)
\* The kinds of call, <<method, argument>>, in one fixed order
RECURSIVE InOrder(_)
InOrder(kinds) ==
    IF kinds = {} THEN <<>>
    ELSE LET k == CHOOSE x \in kinds : TRUE
         IN  <<k>> \o InOrder(kinds \ {k})
CallKinds == InOrder(UNION { { <<m, arg>> : arg \in ArgsOf(m) } : m \in Methods })
RECURSIVE ReplayFrom(_, _)
ReplayFrom(self, i) ==
    IF i > Len(CallKinds) THEN self
    ELSE LET m == CallKinds[i][1]
             arg == CallKinds[i][2]
         IN  ReplayFrom(Repeat(m, self, arg, calls[m][arg]), i + 1)
Replayed == ReplayFrom(Account(TheAddress, params), 1)

\* C10: the results of an account do not depend on the order of the
\* accumulation calls: after the calls were made in any order, the eligible
\* balance, the OUSD compensation and the OGN compensation are the ones the
\* same calls give when made in one fixed order.
C10_OrderIndependent ==
    LET fixed == Replayed
    IN  /\ eligible_balance_usd(acct) = eligible_balance_usd(fixed)
        /\ adjusted_ousd_compensation(acct) = adjusted_ousd_compensation(fixed)
        /\ adjusted_ogn_compensation(acct) = adjusted_ogn_compensation(fixed)
        /\ ogn_compensation_raises(acct) = ogn_compensation_raises(fixed)

\* The calls were made in another order than the fixed one, and the order
\* shows in the account: its proceeds are listed the other way round
C10_Witness ==
    /\ acct._virgox_proceeds # Replayed._virgox_proceeds
    /\ trading_gain_virgox(acct) > 0
    /\ eligible_balance_usd(acct) > 0

(***************************************************************************)
(* The liquidity extractors: uniswap_lps.py, sushiswap_lps.py and          *)
(* mooniswap_lps.py.  Each main() asks a node for a pool's supply and      *)
(* reserves, collects the addresses that ever received pool tokens, and    *)
(* prints one record per address with its share of the two reserves.       *)
(*                                                                         *)
(* decimal.Decimal is a coefficient and an exponent, <<c, e>> for          *)
(* c / 10^e, and every arithmetic result is rounded half-even to the       *)
(* precision of the context.  The source runs with the default context of  *)
(* 28 significant digits on amounts of 18 decimals; the model keeps the    *)
(* rounding and scales the precision and the amounts down together.        *)
(***************************************************************************)
DECIMAL_PREC == 4

abs(x) == IF x < 0 THEN -x ELSE x
RECURSIVE digits(_)
digits(n) == IF n < 10 THEN 1 ELSE 1 + digits(n \div 10)
RECURSIVE normal(_)
normal(x) ==
    IF x[2] > 0 /\ x[1] % 10 = 0 THEN normal(<<x[1] \div 10, x[2] - 1>>) ELSE x
half_even(q, r, m) ==
    IF 2 * r > m \/ (2 * r = m /\ q % 2 = 1) THEN q + 1 ELSE q
\* The context rounds a result to DECIMAL_PREC significant digits
round(x) ==
    LET c == abs(x[1])
        k == digits(c) - DECIMAL_PREC
        sign == IF x[1] < 0 THEN -1 ELSE 1
    IN  IF k <= 0 THEN normal(x)
        ELSE LET q == half_even(c \div pow(10, k), c % pow(10, k), pow(10, k))
             IN  IF x[2] >= k THEN normal(<<sign * q, x[2] - k>>)
                 ELSE <<sign * q * pow(10, k - x[2]), 0>>
\* Decimal(n) of an int is exact
Decimal(n) == <<n, 0>>
dec_add(x, y) ==
    LET e == IF x[2] > y[2] THEN x[2] ELSE y[2]
    IN  round(<<x[1] * pow(10, e - x[2]) + y[1] * pow(10, e - y[2]), e>>)
dec_sub(x, y) == dec_add(x, <<-y[1], y[2]>>)
dec_mul(x, y) == round(<<x[1] * y[1], x[2] + y[2]>>)
\* The long division of n by d from the quotient q and remainder r so far:
\* one more digit at a time until the quotient fills the precision or the
\* division ends; <<quotient, remainder, digits after the point>>
RECURSIVE long_division(_, _, _, _)
long_division(q, r, d, s) ==
    IF r = 0 \/ (q > 0 /\ digits(q) >= DECIMAL_PREC) THEN <<q, r, s>>
    ELSE long_division(10 * q + (10 * r) \div d, (10 * r) % d, d, s + 1)
\* x / y for y > 0; the callers raise on y = 0
dec_div(x, y) ==
    LET sign == IF x[1] < 0 THEN -1 ELSE 1
        n == abs(x[1]) * pow(10, y[2])
        d == y[1] * pow(10, x[2])
        l == long_division(n \div d, n % d, d, 0)
        k == digits(l[1]) - DECIMAL_PREC
    IN  IF k <= 0 THEN round(<<sign * half_even(l[1], l[2], d), l[3]>>)
        ELSE <<sign * half_even(l[1] \div pow(10, k),
                                (l[1] % pow(10, k)) * d + l[2], pow(10, k) * d)
               * pow(10, k), 0>>
\* math.floor of a Decimal
dec_floor(x) == x[1] \div pow(10, x[2])
dec_gt(x, y) == x[1] * pow(10, y[2]) > y[1] * pow(10, x[2])
dec_abs(x) == <<abs(x[1]), x[2]>>

ZERO_ADDRESS == "0x0000"
MASTER_CHEF_ADDRESS == "0xc2Ed"
OUSD_ADDRESS == "0x2A8e"
MINIMUM_LIQUIDITY == 1000
MAX_ROUNDING_DRIFT == 10
ADD_LIQUDITY_SIG == "0xe8e33700"
ADD_LIQUDITY_ETH_SIG == "0xf305d719"
ZAP_IN_ETH_SIG == "0x1d572320"
None == "None"

\* The burn pools lock MINIMUM_LIQUIDITY pool tokens at the first deposit
BurnPools == { "uniswap", "sushiswap" }
Protocols == BurnPools \cup { "mooniswap" }

\* tx['input'] is the four-byte selector followed by the encoded arguments
startswith(input, sig) == input[1] = sig

\* ousd_value_adjustment(token_balance, from_cpt, to_cpt); Decimal(1e18) is
\* the scale of credits per token, WAD here
ousd_value_adjustment(token_balance, from_cpt, to_cpt) ==
    LET credits == dec_floor(dec_div(dec_mul(token_balance, Decimal(from_cpt)),
                                     Decimal(WAD)))
    IN  dec_floor(dec_div(dec_mul(Decimal(credits), Decimal(WAD)), Decimal(to_cpt)))

\* A mint or a transfer of the burn pools names an address: it joins the
\* list unless it is the zero address or already there
append_unless_zero(addresses_of_interest, lp_addr) ==
    IF lp_addr # ZERO_ADDRESS /\ \A i \in DOMAIN addresses_of_interest :
                                    addresses_of_interest[i] # lp_addr
    THEN Append(addresses_of_interest, lp_addr)
    ELSE addresses_of_interest
\* A deposit or a transfer of Mooniswap: "if account and account not in"
append_if_account(addresses_of_interest, account) ==
    IF account # None /\ account # "" /\ \A i \in DOMAIN addresses_of_interest :
                                            addresses_of_interest[i] # account
    THEN Append(addresses_of_interest, account)
    ELSE addresses_of_interest

\* The sushiswap pool lookup: "for pid in reversed(range(0, pool_length-1))"
\* from pid down to 0, the first pool whose token is the pair, else -1
RECURSIVE find_pool(_, _, _)
find_pool(pools, pair_address, pid) ==
    IF pid < 0 THEN -1
    ELSE IF pools[pid + 1] # None /\ pools[pid + 1] = pair_address THEN pid
    ELSE find_pool(pools, pair_address, pid - 1)
pool_lookup(pools, pair_address) == find_pool(pools, pair_address, Len(pools) - 2)

\* What the node answers at the block: the input of one run
PAIR_ADDRESS == "0xPair"
OTHER_PAIR == "0xOther"
USDT == "0xdAC1"
LP1 == "0xAb"
LP2 == "0xCd"
Crowd == { "0x01", "0x02", "0x03", "0x04", "0x05", "0x06",
           "0x07", "0x08", "0x09", "0x0a", "0x0b", "0x0c" }
CrowdTransfers == << "0x01", "0x02", "0x03", "0x04", "0x05", "0x06",
                     "0x07", "0x08", "0x09", "0x0a", "0x0b", "0x0c" >>
Addresses == { ZERO_ADDRESS, MASTER_CHEF_ADDRESS, LP1, LP2 } \cup Crowd
tx(from, sig) == [from |-> from, input |-> <<sig, "args">>]
\* Mint events with the transaction of each, Deposited events with their
\* account, Transfer events with their recipient
MintFeeds ==
    { <<>>,
      << tx(LP1, ADD_LIQUDITY_SIG) >>,
      << tx(LP1, ADD_LIQUDITY_ETH_SIG), tx(LP2, ZAP_IN_ETH_SIG) >>,
      << tx(LP2, ADD_LIQUDITY_SIG), tx(LP1, "0xbaadf00d") >> }
DepositFeeds == { <<>>, << LP1 >>, << LP1, None, LP2 >> }
TransferFeeds ==
    { <<>>,
      << LP1 >>,
      << ZERO_ADDRESS, LP1, LP2 >>,
      << MASTER_CHEF_ADDRESS, LP2, ZERO_ADDRESS, LP1 >> }
\* Pool tokens outside the burn
AttributableSupplies == { 0, 3, 6 }
Reserves == { <<3, 30>>, <<25, 0>> }
LpBalances == { 0, 1, 3 }
\* The pools of MasterChef by pool id, and userInfo(pid, LP1)[0] by pool
\* id; userInfo is 0 for every other address
Farms == { << << PAIR_ADDRESS, OTHER_PAIR, OTHER_PAIR >>, <<3, 1, 0>> >>,
           << << PAIR_ADDRESS, OTHER_PAIR, OTHER_PAIR >>, <<0, 2, 0>> >>,
           << << OTHER_PAIR, PAIR_ADDRESS, OTHER_PAIR >>, <<3, 1, 0>> >>,
           << << OTHER_PAIR, PAIR_ADDRESS, OTHER_PAIR >>, <<0, 2, 0>> >>,
           << << OTHER_PAIR, OTHER_PAIR, PAIR_ADDRESS >>, <<1, 0, 0>> >> }
\* -c and the side OUSD is on; args.credits_per_token is None without -c
NotGiven == 0
Overrides == { <<NotGiven, OUSD_ADDRESS, USDT>>, <<2 * WAD, OUSD_ADDRESS, USDT>>,
               <<2 * WAD, USDT, OUSD_ADDRESS>> }
balances(lp1, lp2, chef) ==
    [addr \in Addresses |->
        CASE addr = LP1 -> lp1
          [] addr = LP2 -> lp2
          [] addr = MASTER_CHEF_ADDRESS -> chef
          [] addr = ZERO_ADDRESS -> 0
          [] OTHER -> 1]
user_info(stakes) ==
    [pid \in 0..2 |-> [addr \in Addresses |-> IF addr = LP1 THEN stakes[pid + 1] ELSE 0]]
Chain(protocol, pair_address, pools, supply, reserves, balanceOf, userInfo, mints, deposits, transfers, override) ==
    [ protocol |-> protocol, pair_address |-> pair_address, pools |-> pools,
      total_supply |-> IF protocol \in BurnPools THEN supply + MINIMUM_LIQUIDITY
                       ELSE supply,
      a_supply |-> reserves[1], b_supply |-> reserves[2],
      balanceOf |-> balanceOf, userInfo |-> userInfo,
      mints |-> mints, deposits |-> deposits, transfers |-> transfers,
      credits_per_token |-> override[1], a |-> override[2], b |-> override[3],
      current_cpt |-> WAD ]
UniswapChains ==
    { Chain("uniswap", PAIR_ADDRESS, <<>>, supply, reserves,
            balances(lp1, lp2, 0), user_info(<<0, 0, 0>>), mints, <<>>, transfers,
            override) :
        supply \in AttributableSupplies, reserves \in Reserves,
        lp1 \in LpBalances, lp2 \in { 0, 3 }, mints \in MintFeeds,
        transfers \in TransferFeeds, override \in Overrides }
SushiswapChains ==
    { Chain("sushiswap", PAIR_ADDRESS, farm[1], supply, reserves,
            balances(lp1, lp2, chef), user_info(farm[2]), mints, <<>>, transfers,
            <<NotGiven, OUSD_ADDRESS, USDT>>) :
        farm \in Farms, supply \in AttributableSupplies, reserves \in Reserves,
        lp1 \in LpBalances, lp2 \in { 0, 3 }, chef \in { 0, 2, 3 },
        mints \in MintFeeds \ { <<>> }, transfers \in TransferFeeds \ { <<>> } }
MooniswapChains ==
    { Chain("mooniswap", PAIR_ADDRESS, <<>>, supply, reserves,
            balances(lp1, lp2, 0), user_info(<<0, 0, 0>>), <<>>, deposits, transfers,
            override) :
        supply \in AttributableSupplies, reserves \in Reserves,
        lp1 \in LpBalances, lp2 \in { 0, 3 }, deposits \in DepositFeeds,
        transfers \in TransferFeeds, override \in Overrides }
\* factory.getPair answers the zero address for a pair that does not exist
NoPairChains ==
    { Chain(protocol, "", << PAIR_ADDRESS, OTHER_PAIR, OTHER_PAIR >>, 3, <<3, 30>>,
            balances(3, 0, 0), user_info(<<0, 0, 0>>), <<>>, <<>>, << LP1 >>,
            <<NotGiven, OUSD_ADDRESS, USDT>>) : protocol \in BurnPools }
\* A pool of twelve holders with one pool token each
CrowdChains ==
    { Chain(protocol, PAIR_ADDRESS, << PAIR_ADDRESS, OTHER_PAIR, OTHER_PAIR >>, 12,
            <<11, 40>>, balances(0, 0, 0), user_info(<<0, 0, 0>>), <<>>, <<>>,
            CrowdTransfers, <<NotGiven, OUSD_ADDRESS, USDT>>) : protocol \in Protocols }
\* A pool of one holder whose token0 reserve has two digits more than the
\* context of decimal keeps (reserves are uint112, the context keeps 28
\* digits): the holder's share rounds up or down by about fifty units
WideReserves == { pow(10, DECIMAL_PREC + 2) - 49, pow(10, DECIMAL_PREC + 2) - 51 }
WideChains ==
    { Chain(protocol, PAIR_ADDRESS, << PAIR_ADDRESS, OTHER_PAIR, OTHER_PAIR >>, 3,
            <<reserve0, 30>>, balances(3, 0, 0), user_info(<<0, 0, 0>>), <<>>, <<>>,
            << LP1 >>, <<NotGiven, OUSD_ADDRESS, USDT>>) :
        protocol \in Protocols, reserve0 \in WideReserves }
Chains == UniswapChains \cup SushiswapChains \cup MooniswapChains \cup NoPairChains
          \cup CrowdChains \cup WideChains

\* The locals of main() before its first statement
Locals ==
    [ pc |-> "start", i |-> 0, addresses_of_interest |-> <<>>, pair_pool_id |-> -1,
      master_chef_total |-> 0, running_total |-> 0, running_total_no_chef |-> 0,
      running_total_a |-> Decimal(0), running_total_b |-> Decimal(0),
      stdout |-> <<>> ]

\* The four loops of main() in their order, and the list each runs over
following(c, phase) ==
    CASE phase = "start" -> IF c.protocol = "mooniswap" THEN "deposits" ELSE "mints"
      [] phase \in { "mints", "deposits" } -> "transfers"
      [] phase = "transfers" -> "holders"
      [] phase = "holders" -> "checks"
items(c, r, phase) ==
    CASE phase = "mints" -> c.mints
      [] phase = "deposits" -> c.deposits
      [] phase = "transfers" -> c.transfers
      [] phase = "holders" -> r.addresses_of_interest
      [] OTHER -> <<>>
RECURSIVE goto(_, _, _)
goto(c, r, phase) ==
    IF phase = "checks" THEN [r EXCEPT !.pc = "checks", !.i = 0]
    ELSE IF items(c, r, phase) = <<>> THEN goto(c, r, following(c, phase))
    ELSE [r EXCEPT !.pc = phase, !.i = 1]
\* After the body of an iteration: the next element, the next loop, or
\* nothing when the body left main()
continue(c, r, phase) ==
    IF r.pc # phase THEN r
    ELSE IF r.i < Len(items(c, r, phase)) THEN [r EXCEPT !.i = r.i + 1]
    ELSE goto(c, r, following(c, phase))
exit(r, reason) == [r EXCEPT !.pc = reason]
record(addr, lp_balance, token0_value, token1_value) ==
    [ kind |-> "record", addr |-> addr, lp_balance |-> lp_balance,
      token0_value |-> token0_value, token1_value |-> token1_value ]
message(text) ==
    [ kind |-> "message", addr |-> text, lp_balance |-> 0,
      token0_value |-> 0, token1_value |-> 0 ]

\* The start of main(): getPair, and for sushiswap the pool lookup
start(c, r) ==
    IF c.protocol \in BurnPools /\ c.pair_address = "" THEN exit(r, "no pair")
    ELSE IF c.protocol = "sushiswap"
    THEN LET pair_pool_id == pool_lookup(c.pools, c.pair_address)
         IN  IF pair_pool_id < 0 THEN exit(r, "no pool")
             ELSE goto(c, [r EXCEPT !.pair_pool_id = pair_pool_id], following(c, "start"))
    ELSE goto(c, r, following(c, "start"))

\* The body of "for mint in mints"
uniswap_mint_skips_unknown(c, r, mint) ==
    IF ~(startswith(mint.input, ADD_LIQUDITY_SIG)
         \/ startswith(mint.input, ADD_LIQUDITY_ETH_SIG))
    THEN [r EXCEPT !.stdout = Append(@, message("UNKNOWN FUNCTION"))]
    ELSE [r EXCEPT !.addresses_of_interest = append_unless_zero(@, mint.from)]
uniswap_mint(c, r, mint) ==
    IF ~(startswith(mint.input, ADD_LIQUDITY_SIG)
         \/ startswith(mint.input, ADD_LIQUDITY_ETH_SIG))
    THEN exit([r EXCEPT !.stdout = Append(@, message("UNKNOWN FUNCTION"))],
              "unknown function")
    ELSE [r EXCEPT !.addresses_of_interest = append_unless_zero(@, mint.from)]
sushiswap_mint(c, r, mint) ==
    IF ~(startswith(mint.input, ADD_LIQUDITY_SIG)
         \/ startswith(mint.input, ADD_LIQUDITY_ETH_SIG)
         \/ startswith(mint.input, ZAP_IN_ETH_SIG))
    THEN exit([r EXCEPT !.stdout = Append(@, message("UNKNOWN FUNCTION"))],
              "unknown function")
    ELSE [r EXCEPT !.addresses_of_interest = append_unless_zero(@, mint.from)]

\* The body of "for transfer in transfers"
transfer(c, r, to_address) ==
    IF c.protocol = "mooniswap"
    THEN [r EXCEPT !.addresses_of_interest = append_if_account(@, to_address)]
    ELSE [r EXCEPT !.addresses_of_interest = append_unless_zero(@, to_address)]

\* The share of the reserves of a holder with the balance, its record, and
\* the running totals: the same statements in the three files
attribute(c, r, addr, balance, divisor) ==
    IF balance # 0 /\ divisor = 0 THEN exit(r, "DivisionByZero")
    ELSE
    LET ratio == dec_div(Decimal(balance), Decimal(divisor))
        a_balance == IF balance # 0 THEN dec_mul(Decimal(c.a_supply), ratio)
                     ELSE Decimal(0)
        b_balance == IF balance # 0 THEN dec_mul(Decimal(c.b_supply), ratio)
                     ELSE Decimal(0)
        adjust_a == c.credits_per_token # NotGiven /\ c.a = OUSD_ADDRESS
                    /\ a_balance[1] # 0
        adjust_b == c.credits_per_token # NotGiven /\ ~adjust_a /\ c.b = OUSD_ADDRESS
                    /\ b_balance[1] # 0
        token0_value == IF adjust_a
                        THEN ousd_value_adjustment(a_balance, c.current_cpt,
                                                   c.credits_per_token)
                        ELSE dec_floor(a_balance)
        token1_value == IF adjust_b
                        THEN ousd_value_adjustment(b_balance, c.current_cpt,
                                                   c.credits_per_token)
                        ELSE dec_floor(b_balance)
    IN  [r EXCEPT !.running_total = @ + balance,
                  !.running_total_a = dec_add(@, a_balance),
                  !.running_total_b = dec_add(@, b_balance),
                  !.stdout = Append(@, record(addr, balance, token0_value,
                                              token1_value))]

\* The body of "for addr in addresses_of_interest"
uniswap_holder(c, r, addr) ==
    attribute(c, r, addr, c.balanceOf[addr], c.total_supply - MINIMUM_LIQUIDITY)
mooniswap_holder(c, r, addr) ==
    attribute(c, r, addr, c.balanceOf[addr], c.total_supply)
sushiswap_holder_pool_zero(c, r, addr) ==
    LET lp_balance == c.balanceOf[addr]
        chef_lp_balance == c.userInfo[0][addr]
        combined_lp_balance == lp_balance + chef_lp_balance
        attributed == attribute(c, r, addr, combined_lp_balance,
                                c.total_supply - MINIMUM_LIQUIDITY)
    IN  IF addr = MASTER_CHEF_ADDRESS
        THEN IF c.total_supply - MINIMUM_LIQUIDITY = 0
             THEN exit(r, IF lp_balance = 0 THEN "InvalidOperation"
                          ELSE "DivisionByZero")
             ELSE [r EXCEPT !.master_chef_total = lp_balance]
        ELSE IF attributed.pc # r.pc THEN attributed
        ELSE [attributed EXCEPT !.running_total_no_chef = @ + lp_balance]
sushiswap_holder(c, r, addr) ==
    LET lp_balance == c.balanceOf[addr]
        chef_lp_balance == c.userInfo[r.pair_pool_id][addr]
        combined_lp_balance == lp_balance + chef_lp_balance
        attributed == attribute(c, r, addr, combined_lp_balance,
                                c.total_supply - MINIMUM_LIQUIDITY)
    IN  IF addr = MASTER_CHEF_ADDRESS
        THEN IF c.total_supply - MINIMUM_LIQUIDITY = 0
             THEN exit(r, IF lp_balance = 0 THEN "InvalidOperation"
                          ELSE "DivisionByZero")
             ELSE [r EXCEPT !.master_chef_total = lp_balance]
        ELSE IF attributed.pc # r.pc THEN attributed
        ELSE [attributed EXCEPT !.running_total_no_chef = @ + lp_balance]

\* The checks after the loops
uniswap_checks_without_total(c, r) ==
    IF dec_gt(dec_sub(Decimal(c.a_supply), r.running_total_a),
              Decimal(MAX_ROUNDING_DRIFT))
    THEN exit(r, "token0 supply")
    ELSE IF dec_gt(dec_sub(Decimal(c.b_supply), r.running_total_b),
                   Decimal(MAX_ROUNDING_DRIFT))
    THEN exit(r, "token1 supply")
    ELSE exit(r, "done")
uniswap_checks(c, r) ==
    IF r.running_total # c.total_supply - MINIMUM_LIQUIDITY THEN exit(r, "total supply")
    ELSE IF dec_gt(dec_sub(Decimal(c.a_supply), r.running_total_a),
                   Decimal(MAX_ROUNDING_DRIFT))
    THEN exit(r, "token0 supply")
    ELSE IF dec_gt(dec_sub(Decimal(c.b_supply), r.running_total_b),
                   Decimal(MAX_ROUNDING_DRIFT))
    THEN exit(r, "token1 supply")
    ELSE exit(r, "done")
sushiswap_checks(c, r) ==
    LET total_total == r.running_total_no_chef + r.master_chef_total
    IN  IF total_total # r.running_total
        THEN exit([r EXCEPT !.stdout = Append(@, message("rtnc + mct != rt"))],
                  "master chef total")
        ELSE IF total_total # c.total_supply - MINIMUM_LIQUIDITY
        THEN exit([r EXCEPT !.stdout = Append(@, message("rtnc + mct != ts+ML"))],
                  "total supply")
        ELSE IF dec_gt(dec_sub(Decimal(c.a_supply), r.running_total_a),
                       Decimal(MAX_ROUNDING_DRIFT))
        THEN exit(r, "token0 supply")
        ELSE IF dec_gt(dec_sub(Decimal(c.b_supply), r.running_total_b),
                       Decimal(MAX_ROUNDING_DRIFT))
        THEN exit(r, "token1 supply")
        ELSE exit(r, "done")
mooniswap_checks_one_sided(c, r) ==
    IF dec_gt(dec_sub(Decimal(c.a_supply), r.running_total_a),
              Decimal(MAX_ROUNDING_DRIFT))
    THEN exit(r, "token0 supply")
    ELSE IF dec_gt(dec_sub(Decimal(c.b_supply), r.running_total_b),
                   Decimal(MAX_ROUNDING_DRIFT))
    THEN exit(r, "token1 supply")
    ELSE exit(r, "done")
mooniswap_checks(c, r) ==
    IF dec_gt(dec_abs(dec_sub(Decimal(c.a_supply), r.running_total_a)),
              Decimal(MAX_ROUNDING_DRIFT))
    THEN exit(r, "token0 supply")
    ELSE IF dec_gt(dec_abs(dec_sub(Decimal(c.b_supply), r.running_total_b)),
                   Decimal(MAX_ROUNDING_DRIFT))
    THEN exit(r, "token1 supply")
    ELSE exit(r, "done")

\* The ways main() ends: every one but "done" is an exit with status 1 or
\* an exception of decimal
Failures == { "no pair", "no pool", "unknown function", "master chef total",
              "total supply", "token0 supply", "token1 supply",
              "DivisionByZero", "InvalidOperation" }

NoAccount ==
    /\ params = DefaultParams
    /\ acct = Account(TheAddress, DefaultParams)
    /\ calls = [m \in Methods |-> [arg \in ArgsOf(m) |-> 0]]
    /\ ncalls = 0
    /\ out = <<>>
    /\ NoLedger

InitLps ==
    /\ chain \in Chains
    /\ run = Locals
    /\ NoAccount

Step(r) ==
    /\ run' = r
    /\ UNCHANGED <<chain, params, out, account_vars, ledger_vars>>

Start ==
    /\ run.pc = "start"
    /\ Step(start(chain, run))
Mint ==
    /\ run.pc = "mints"
    /\ Step(continue(chain,
                     IF chain.protocol = "uniswap"
                     THEN uniswap_mint(chain, run, chain.mints[run.i])
                     ELSE sushiswap_mint(chain, run, chain.mints[run.i]),
                     "mints"))
Deposit ==
    /\ run.pc = "deposits"
    /\ Step(continue(chain,
                     [run EXCEPT !.addresses_of_interest =
                                     append_if_account(@, chain.deposits[run.i])],
                     "deposits"))
Transfer ==
    /\ run.pc = "transfers"
    /\ Step(continue(chain, transfer(chain, run, chain.transfers[run.i]), "transfers"))
Holder ==
    /\ run.pc = "holders"
    /\ LET addr == run.addresses_of_interest[run.i]
       IN  Step(continue(chain,
                         CASE chain.protocol = "uniswap" -> uniswap_holder(chain, run, addr)
                           [] chain.protocol = "sushiswap" -> sushiswap_holder(chain, run, addr)
                           [] chain.protocol = "mooniswap" -> mooniswap_holder(chain, run, addr),
                         "holders"))
Checks ==
    /\ run.pc = "checks"
    /\ Step(CASE chain.protocol = "uniswap" -> uniswap_checks(chain, run)
              [] chain.protocol = "sushiswap" -> sushiswap_checks(chain, run)
              [] chain.protocol = "mooniswap" -> mooniswap_checks(chain, run))

NextLps == Start \/ Mint \/ Deposit \/ Transfer \/ Holder \/ Checks
SpecLps == InitLps /\ [][NextLps]_vars

(***************************************************************************)
(* Claims about the liquidity extractors                                   *)
(***************************************************************************)
\* The ownership records among the lines written to standard output
records(stdout) == SelectSeq(stdout, LAMBDA line : line.kind = "record")
lp_balances(rows) == [i \in DOMAIN rows |-> rows[i].lp_balance]
token0_values(rows) == [i \in DOMAIN rows |-> rows[i].token0_value]
token1_values(rows) == [i \in DOMAIN rows |-> rows[i].token1_value]
ConservationFailures ==
    { "master chef total", "total supply", "token0 supply", "token1 supply" }

\* C11: in the two burn pools (Uniswap, Sushiswap) a run ends without a
\* fatal exit only if the share balances of the records it wrote (for
\* Sushiswap, direct plus staked) add up to the total supply minus
\* MINIMUM_LIQUIDITY; with any other sum the run ends in a failure.
C11_BurnPoolSupplyConserved ==
    (chain.protocol \in BurnPools /\ run.pc = "done")
        => sum(lp_balances(records(run.stdout)))
               = chain.total_supply - MINIMUM_LIQUIDITY

\* A sushiswap run over two holders, one of them staking in MasterChef,
\* passed the checks
C11_Witness ==
    /\ chain.protocol = "sushiswap"
    /\ run.pc = "done"
    /\ run.master_chef_total > 0
    /\ Len(records(run.stdout)) >= 2
    /\ chain.total_supply - MINIMUM_LIQUIDITY > 0

\* C12: a Mooniswap run ends without a fatal exit only if the share
\* balances of the records it wrote add up to the total supply exactly.
C12_MooniswapSupplyConserved ==
    (chain.protocol = "mooniswap" /\ run.pc = "done")
        => sum(lp_balances(records(run.stdout))) = chain.total_supply

\* C13: a run that fails a conservation check has written no ownership
\* record: the checks abort the run before any output.
C13_NoRecordOfFailedRun ==
    run.pc \in ConservationFailures => records(run.stdout) = <<>>

\* x <= y for Decimals
dec_le(x, y) == ~dec_gt(x, y)
Completed(protocols) ==
    /\ chain.protocol \in protocols
    /\ run.pc = "done"

attributable_supply ==
    IF chain.protocol \in BurnPools THEN chain.total_supply - MINIMUM_LIQUIDITY
    ELSE chain.total_supply

\* C15: the attributed reserve written for a holder is
\* floor(reserve * share balance / attributable supply), floored once after
\* the multiplication, on both sides of the pair (taken here for Uniswap and
\* Mooniswap runs without a credits-per-token override).
C15_FloorOfProduct ==
    (chain.protocol \in { "uniswap", "mooniswap" } /\ chain.credits_per_token = NotGiven)
        => \A i \in DOMAIN records(run.stdout) :
              LET row == records(run.stdout)[i]
              IN  row.lp_balance # 0
                    => /\ row.token0_value
                            = (chain.a_supply * row.lp_balance) \div attributable_supply
                       /\ row.token1_value
                            = (chain.b_supply * row.lp_balance) \div attributable_supply

\* C16: a holder whose (combined) share balance is 0 is attributed 0 of
\* both reserves, and no participant with a zero balance makes the run
\* divide by zero, whatever the attributable supply.
C16_ZeroShareIsZero ==
    /\ \A i \in DOMAIN records(run.stdout) :
          LET row == records(run.stdout)[i]
          IN  row.lp_balance = 0 => row.token0_value = 0 /\ row.token1_value = 0
    /\ run.pc # "InvalidOperation"

\* The pool id of the pair in MasterChef
pool_id_of_pair ==
    CHOOSE pid \in 0..(Len(chain.pools) - 1) : chain.pools[pid + 1] = chain.pair_address

\* C17: the Sushiswap extractor writes no record for MasterChef, and the
\* balance of every record it writes is the holder's own pool balance plus
\* what MasterChef holds for that holder in the pool of the pair.
C17_MasterChefResolved ==
    chain.protocol = "sushiswap"
        => \A i \in DOMAIN records(run.stdout) :
              LET row == records(run.stdout)[i]
              IN  /\ row.addr # MASTER_CHEF_ADDRESS
                  /\ row.lp_balance = chain.balanceOf[row.addr]
                                        + chain.userInfo[pool_id_of_pair][row.addr]

\* MasterChef is among the addresses and was passed over; a holder with a
\* stake in the pair's pool, which is not pool 0, has its record
C17_Witness ==
    /\ chain.protocol = "sushiswap"
    /\ run.pc = "done"
    /\ \E i \in DOMAIN run.addresses_of_interest :
          run.addresses_of_interest[i] = MASTER_CHEF_ADDRESS
    /\ pool_id_of_pair = 1
    /\ \E i \in DOMAIN records(run.stdout) :
          LET row == records(run.stdout)[i]
          IN  /\ chain.userInfo[1][row.addr] > 0
              /\ chain.userInfo[0][row.addr] # chain.userInfo[1][row.addr]
              /\ row.token0_value > 0

\* C18: the addresses collected from the events never include the zero
\* address, whatever the events, a transfer to the zero address included.
C18_NoZeroAddress ==
    \A i \in DOMAIN run.addresses_of_interest :
        run.addresses_of_interest[i] # ZERO_ADDRESS

\* The selectors a Mint may come from
entry_points ==
    IF chain.protocol = "uniswap" THEN { ADD_LIQUDITY_SIG, ADD_LIQUDITY_ETH_SIG }
    ELSE { ADD_LIQUDITY_SIG, ADD_LIQUDITY_ETH_SIG, ZAP_IN_ETH_SIG }
unrecognized_mint ==
    /\ chain.protocol \in BurnPools
    /\ \E i \in DOMAIN chain.mints : chain.mints[i].input[1] \notin entry_points

\* C19: a Mint whose transaction was not sent to one of the add-liquidity
\* entry points ends the run with a failure, and no record is written for
\* any holder.
C19_UnrecognizedMintIsFatal ==
    unrecognized_mint
        => /\ run.pc \in { "start", "mints", "no pair", "no pool", "unknown function" }
           /\ records(run.stdout) = <<>>

\* The run stopped at an unrecognized Mint after it had collected a holder
\* from an earlier Mint
C19_Witness ==
    /\ unrecognized_mint
    /\ run.pc = "unknown function"
    /\ run.addresses_of_interest # <<>>

(***************************************************************************)
(* The swap extractor, uniswap_swaps.py: main() lists the Swap events of   *)
(* a pair between two blocks and prints one record per event of a          *)
(* transaction that succeeded.                                             *)
(***************************************************************************)
WETH == "0xC02a"
\* A Swap log of a pair: what it took in, what it paid out, to whom
swap_log(address, amounts, to) ==
    [ address |-> address, amount0In |-> amounts[1], amount1In |-> amounts[2],
      amount0Out |-> amounts[3], amount1Out |-> amounts[4], to |-> to ]
\* A pair of the tracked asset and WETH that a route may pass through
OUSD_WETH_PAIR == "0xEf"
\* token0 in for token1 out, token1 in for token0 out, the two with a
\* balance left in the pair that the swap took along, and a swap that pays
\* out as much of one token as of the other
SwapAmounts ==
    { <<5, 0, 0, 4>>, <<0, 4, 5, 0>>, <<5, 1, 0, 4>>, <<1, 4, 5, 0>>, <<4, 4, 3, 3>> }
\* The Swap logs of one transaction, hop by hop: the pair alone, the pair
\* after or before another pair, twice, and in the middle of three hops
SwapPaths ==
    { << swap_log(PAIR_ADDRESS, amounts, LP1) >> : amounts \in SwapAmounts }
    \cup { << swap_log(OTHER_PAIR, <<7, 0, 0, 4>>, PAIR_ADDRESS),
              swap_log(PAIR_ADDRESS, <<0, 4, 5, 0>>, LP2) >>,
           << swap_log(PAIR_ADDRESS, <<5, 0, 0, 4>>, OTHER_PAIR),
              swap_log(OTHER_PAIR, <<0, 4, 7, 0>>, LP2) >>,
           << swap_log(OUSD_WETH_PAIR, <<0, 2, 5, 0>>, PAIR_ADDRESS),
              swap_log(PAIR_ADDRESS, <<5, 0, 0, 4>>, LP2) >>,
           << swap_log(PAIR_ADDRESS, <<0, 4, 5, 0>>, OUSD_WETH_PAIR),
              swap_log(OUSD_WETH_PAIR, <<5, 0, 0, 2>>, LP2) >>,
           << swap_log(PAIR_ADDRESS, <<0, 4, 5, 0>>, PAIR_ADDRESS),
              swap_log(PAIR_ADDRESS, <<5, 0, 0, 4>>, LP1) >>,
           << swap_log(OTHER_PAIR, <<7, 0, 0, 4>>, PAIR_ADDRESS),
              swap_log(PAIR_ADDRESS, <<0, 4, 5, 0>>, OUSD_WETH_PAIR),
              swap_log(OUSD_WETH_PAIR, <<5, 0, 0, 2>>, LP2) >> }
\* web3.eth.getTransactionReceipt: status, sender and logs
receipt(hash, blockNumber, status, from, path) ==
    [ transactionHash |-> hash, blockNumber |-> blockNumber, status |-> status,
      from |-> from, logs |-> path ]
Receipts(hash, blockNumber) ==
    { receipt(hash, blockNumber, status, from, path) :
        status \in { 0, 1 }, from \in { LP1 }, path \in SwapPaths }
Blocks ==
    { <<>> }
    \cup { << first >> : first \in Receipts("0xaa", 1) }
    \cup { << first, second >> :
               first \in Receipts("0xaa", 1), second \in Receipts("0xbb", 2) }
\* token0() and token1() of the pairs
pair_tokens ==
    [ pair \in { PAIR_ADDRESS, OTHER_PAIR, OUSD_WETH_PAIR } |->
        IF pair = PAIR_ADDRESS THEN << OUSD_ADDRESS, USDT >>
        ELSE IF pair = OTHER_PAIR THEN << WETH, USDT >>
        ELSE << OUSD_ADDRESS, WETH >> ]
SwapChain(pair_address, token_x, receipts, credits_per_token) ==
    [ protocol |-> "uniswap_swaps", pair_address |-> pair_address,
      a |-> token_x, b |-> USDT, tokens |-> pair_tokens, receipts |-> receipts,
      credits_per_token |-> credits_per_token, block_cpt |-> WAD ]
SwapChains ==
    { SwapChain(PAIR_ADDRESS, OUSD_ADDRESS, receipts, credits_per_token) :
        receipts \in Blocks, credits_per_token \in { NotGiven, 2 * WAD } }
    \cup { SwapChain("", OUSD_ADDRESS, <<>>, NotGiven),
           SwapChain(PAIR_ADDRESS, WETH, <<>>, NotGiven) }

\* swap_filter.get_all_entries(): the Swap logs of the pair in the order of
\* the chain, each with the index of its transaction
RECURSIVE pair_events(_, _, _)
pair_events(c, t, l) ==
    IF t > Len(c.receipts) THEN <<>>
    ELSE IF l > Len(c.receipts[t].logs) THEN pair_events(c, t + 1, 1)
    ELSE LET log == c.receipts[t].logs[l]
         IN  IF log.address = c.pair_address
             THEN << [ tx |-> t, blockNumber |-> c.receipts[t].blockNumber,
                       args |-> log ] >>
                       \o pair_events(c, t, l + 1)
             ELSE pair_events(c, t, l + 1)
get_all_entries(c) == pair_events(c, 1, 1)

\* "for swap in tx_swaps: if swap.args.to != out_address: out_address = ..."
final_recipient_of_event(tx_swaps, out_address, i) == out_address
RECURSIVE final_recipient(_, _, _)
final_recipient(tx_swaps, out_address, i) ==
    IF i > Len(tx_swaps) THEN out_address
    ELSE final_recipient(tx_swaps,
                         IF tx_swaps[i].to # out_address THEN tx_swaps[i].to
                         ELSE out_address,
                         i + 1)

swap_record(event, in_address, out_address, direction, a_change, b_change, token_in, token_out, token0_relevance, tx_hash) ==
    [ kind |-> "record", block_number |-> event.blockNumber,
      in_address |-> in_address, out_address |-> out_address,
      swap_direction |-> IF direction = "left" THEN "buy" ELSE "sell",
      token0_amount |-> a_change, token1_amount |-> b_change,
      token_in |-> token_in, token_out |-> token_out,
      token0_relevance |-> token0_relevance, tx_hash |-> tx_hash ]

\* "direction = 'right'; if event.args.amount0Out > event.args.amount1Out:
\* direction = 'left'"
swap_direction_or_equal(args) ==
    IF args.amount0Out >= args.amount1Out THEN "left" ELSE "right"
swap_direction(args) ==
    IF args.amount0Out > args.amount1Out THEN "left" ELSE "right"

\* a_change and b_change: what went in on the side that was sold, what came
\* out less what went in on the side that was bought
changes_net(args, direction) ==
    << args.amount0Out - args.amount0In, args.amount1Out - args.amount1In >>
changes(args, direction) ==
    IF direction = "left"
    THEN << args.amount0Out - args.amount0In, args.amount1In >>
    ELSE << args.amount0In, args.amount1Out - args.amount1In >>

\* token0_relevance: the branches of "if len(tx_swaps) > 0" in their order
relevance(tx_swaps, pair_address, direction) ==
    LET first_is_pair == tx_swaps[1].address = pair_address
        last_is_pair == tx_swaps[Len(tx_swaps)].address = pair_address
        from_ousd == first_is_pair /\ direction = "right"
        to_ousd == last_is_pair /\ direction = "left"
    IN  IF Len(tx_swaps) = 0 THEN "unknown"
        ELSE IF from_ousd /\ to_ousd THEN "in+out"
        ELSE IF from_ousd THEN "in"
        ELSE IF first_is_pair /\ direction = "left" THEN "through"
        ELSE IF to_ousd THEN "out"
        ELSE IF last_is_pair /\ direction = "right" THEN "through"
        ELSE "through"

\* token_in and token_out: the tokens of the pair by the direction, and
\* "Get the actual final token input/output"
tokens_in_out(tx_swaps, pair_address, tokens, direction) ==
    LET token0 == tokens[pair_address][1]
        token1 == tokens[pair_address][2]
        first == tx_swaps[1]
        last == tx_swaps[Len(tx_swaps)]
        from_ousd == first.address = pair_address /\ direction = "right"
        to_ousd == last.address = pair_address /\ direction = "left"
        resolve == Len(tx_swaps) > 0 /\ ~(from_ousd \/ to_ousd)
        token_in ==
            IF resolve /\ ~from_ousd
            THEN IF first.amount0In > first.amount1In THEN tokens[first.address][1]
                 ELSE tokens[first.address][2]
            ELSE IF direction = "left" THEN token1 ELSE token0
        token_out ==
            IF resolve /\ from_ousd
            THEN IF last.amount0Out > last.amount1Out THEN tokens[last.address][1]
                 ELSE tokens[last.address][2]
            ELSE IF direction = "left" THEN token0 ELSE token1
    IN  << token_in, token_out >>

\* The body of "for event in swap_filter.get_all_entries()" for an event
\* of a transaction that succeeded
swap_succeeded(c, r, event) ==
    LET tx_receipt == c.receipts[event.tx]
        in_address == tx_receipt.from
        direction == swap_direction(event.args)
        a_change == changes(event.args, direction)[1]
        b_change == changes(event.args, direction)[2]
        tx_swaps == tx_receipt.logs
        token_in == tokens_in_out(tx_swaps, c.pair_address, c.tokens, direction)[1]
        token_out == tokens_in_out(tx_swaps, c.pair_address, c.tokens, direction)[2]
        token0_relevance == relevance(tx_swaps, c.pair_address, direction)
        out_address == final_recipient(tx_swaps, event.args.to, 1)
        adjusted == IF c.credits_per_token # NotGiven
                    THEN ousd_value_adjustment(Decimal(a_change), c.block_cpt,
                                               c.credits_per_token)
                    ELSE a_change
    IN  [r EXCEPT !.stdout =
            Append(@, swap_record(event, in_address, out_address, direction,
                                  adjusted, b_change, token_in, token_out,
                                  token0_relevance, tx_receipt.transactionHash))]
swap_without_status(c, r, event) == swap_succeeded(c, r, event)
\* "if not receipt.status: continue", then the rest of the body
swap(c, r, event) ==
    IF c.receipts[event.tx].status = 0 THEN r ELSE swap_succeeded(c, r, event)

\* The locals of main() of uniswap_swaps.py before its first statement
SwapLocals == [ pc |-> "start", i |-> 0, stdout |-> <<>> ]

InitSwaps ==
    /\ chain \in SwapChains
    /\ run = SwapLocals
    /\ NoAccount

\* getPair, token0() and token1(), and the two assertions
GetPair ==
    /\ run.pc = "start"
    /\ Step(IF chain.pair_address = "" THEN exit(run, "no pair")
            ELSE IF chain.tokens[chain.pair_address][1] # chain.a
                    \/ chain.tokens[chain.pair_address][2] # chain.b
            THEN exit(run, "AssertionError")
            ELSE IF get_all_entries(chain) = <<>> THEN exit(run, "done")
            ELSE [run EXCEPT !.pc = "swaps", !.i = 1])
Swap ==
    /\ run.pc = "swaps"
    /\ LET entries == get_all_entries(chain)
           r == swap(chain, run, entries[run.i])
       IN  Step(IF run.i < Len(entries) THEN [r EXCEPT !.i = run.i + 1]
                ELSE exit(r, "done"))

NextSwaps == GetPair \/ Swap
SpecSwaps == InitSwaps /\ [][NextSwaps]_vars

(***************************************************************************)
(* Claims about the swap extractor                                         *)
(***************************************************************************)
\* The chain without the transactions that failed
succeeded_only(c) ==
    [c EXCEPT !.receipts = SelectSeq(@, LAMBDA tx_receipt : tx_receipt.status # 0)]
\* What main() prints for the events of a chain from the i-th on
RECURSIVE printed(_, _, _)
printed(c, r, i) ==
    IF i > Len(get_all_entries(c)) THEN r.stdout
    ELSE printed(c, swap(c, r, get_all_entries(c)[i]), i + 1)
failed_hashes ==
    { chain.receipts[t].transactionHash :
        t \in { t \in DOMAIN chain.receipts : chain.receipts[t].status = 0 } }

\* C20: a Swap event of a transaction whose receipt has a failed status
\* gets no record, not one with zero values either, and the records of
\* the other events are the ones a run without that transaction writes.
C20_FailedSwapAbsent ==
    chain.protocol = "uniswap_swaps"
        => /\ \A i \in DOMAIN run.stdout : run.stdout[i].tx_hash \notin failed_hashes
           /\ run.pc = "done" /\ chain.pair_address # ""
                => run.stdout = printed(succeeded_only(chain), SwapLocals, 1)

\* The first transaction failed, the second succeeded: the run is over
\* and has written the record of the second
C20_Witness ==
    /\ chain.protocol = "uniswap_swaps"
    /\ run.pc = "done"
    /\ Len(chain.receipts) = 2
    /\ chain.receipts[1].status = 0
    /\ chain.receipts[1].logs[1].address = chain.pair_address
    /\ chain.receipts[2].status = 1
    /\ run.stdout # <<>>

\* The events that get a record, in the order of the records
printed_events ==
    SelectSeq(get_all_entries(chain), LAMBDA e : chain.receipts[e.tx].status # 0)
SwapRecords == IF chain.protocol = "uniswap_swaps" THEN DOMAIN run.stdout ELSE {}
args_of(i) == printed_events[i].args
hops_of(i) == chain.receipts[printed_events[i].tx].logs
first_hop(i) == hops_of(i)[1]
last_hop(i) == hops_of(i)[Len(hops_of(i))]

\* C21: the record says buy exactly when the event paid out more of
\* token0 than of token1, and sell otherwise, equal amounts included.
C21_DirectionByOutAmounts ==
    \A i \in SwapRecords :
        /\ run.stdout[i].swap_direction \in { "buy", "sell" }
        /\ run.stdout[i].swap_direction = "buy"
              <=> args_of(i).amount0Out > args_of(i).amount1Out

\* A record of an event that paid out as much token0 as token1: a sell;
\* and a buy next to it
C21_Witness ==
    /\ \E i \in SwapRecords :
          /\ args_of(i).amount0Out = args_of(i).amount1Out
          /\ run.stdout[i].swap_direction = "sell"
    /\ \E i \in SwapRecords : run.stdout[i].swap_direction = "buy"

\* The amount of token0 as written: scaled by --credits-per-token if given
written_token0(a_change) ==
    IF chain.credits_per_token = NotGiven THEN a_change
    ELSE ousd_value_adjustment(Decimal(a_change), chain.block_cpt,
                               chain.credits_per_token)

\* C22 as stated: in a run without --credits-per-token both amounts of
\* every record are amount out less amount in of their side of the event.
C22_BothSidesNet ==
    \A i \in SwapRecords :
        chain.credits_per_token = NotGiven
            => /\ run.stdout[i].token0_amount
                      = args_of(i).amount0Out - args_of(i).amount0In
               /\ run.stdout[i].token1_amount
                      = args_of(i).amount1Out - args_of(i).amount1In

\* C22: the side that was bought is written net (amount out less amount
\* in), the side that was sold is written as the amount that went in, and
\* the token0 amount is then scaled if --credits-per-token is given.
C22_BoughtSideNetSoldSideIn ==
    \A i \in SwapRecords :
        IF run.stdout[i].swap_direction = "buy"
        THEN /\ run.stdout[i].token0_amount
                    = written_token0(args_of(i).amount0Out - args_of(i).amount0In)
             /\ run.stdout[i].token1_amount = args_of(i).amount1In
        ELSE /\ run.stdout[i].token0_amount = written_token0(args_of(i).amount0In)
             /\ run.stdout[i].token1_amount
                    = args_of(i).amount1Out - args_of(i).amount1In

\* A sell that also took token1 in, and a buy that also took token0 in,
\* both written
C22_Witness ==
    /\ chain.protocol = "uniswap_swaps"
    /\ chain.credits_per_token = NotGiven
    /\ \E i \in SwapRecords :
          /\ run.stdout[i].swap_direction = "sell"
          /\ args_of(i).amount1In > 0
          /\ run.stdout[i].token0_amount = args_of(i).amount0In
          /\ run.stdout[i].token0_amount
                # args_of(i).amount0Out - args_of(i).amount0In
    /\ \E i \in SwapRecords :
          /\ run.stdout[i].swap_direction = "buy"
          /\ args_of(i).amount0In > 0
          /\ run.stdout[i].token1_amount = args_of(i).amount1In

\* C23: a record of a transaction whose first and last Swap log are the
\* pair's has the relevance 'in+out'.
C23_FirstAndLastIsInOut ==
    \A i \in SwapRecords :
        first_hop(i).address = chain.pair_address
        /\ last_hop(i).address = chain.pair_address
            => run.stdout[i].token0_relevance = "in+out"

\* The token a hop took in and the token it paid out, by the larger amount
entering(log) ==
    IF log.amount0In > log.amount1In THEN chain.tokens[log.address][1]
    ELSE chain.tokens[log.address][2]
leaving(log) ==
    IF log.amount0Out > log.amount1Out THEN chain.tokens[log.address][1]
    ELSE chain.tokens[log.address][2]
\* The swap neither sells the tracked asset at the first hop nor buys it
\* at the last
non_terminal(i) ==
    /\ ~(first_hop(i).address = chain.pair_address
         /\ run.stdout[i].swap_direction = "sell")
    /\ ~(last_hop(i).address = chain.pair_address
         /\ run.stdout[i].swap_direction = "buy")

\* C24: the record of a non-terminal swap names the token that entered
\* the first hop as token_in and the token that left the last hop as
\* token_out.
C24_TokensOfTheEnds ==
    \A i \in SwapRecords :
        non_terminal(i)
            => /\ run.stdout[i].token_in = entering(first_hop(i))
               /\ run.stdout[i].token_out = leaving(last_hop(i))

\* C25: the out_address of a record is the 'to' of the last Swap log of
\* its transaction, whatever the number of hops after the pair's.
C25_RecipientOfFinalHop ==
    \A i \in SwapRecords : run.stdout[i].out_address = last_hop(i).to

\* A record of the middle hop of three, paid out to the next pair, and a
\* record of the first hop of two
C25_Witness ==
    /\ \E i \in SwapRecords :
          /\ Len(hops_of(i)) = 3
          /\ hops_of(i)[2] = args_of(i)
          /\ args_of(i).to # last_hop(i).to
          /\ run.stdout[i].out_address = LP2
    /\ \E i \in SwapRecords :
          /\ Len(hops_of(i)) = 2
          /\ first_hop(i) = args_of(i)
          /\ args_of(i).to # last_hop(i).to
          /\ run.stdout[i].out_address = LP2

\* C28: a buy whose transaction ends with the pair's Swap log has the
\* relevance 'out', the buy that is the only swap of its transaction too.
C28_BuyAtLastHopIsOut ==
    \A i \in SwapRecords :
        last_hop(i).address = chain.pair_address
        /\ run.stdout[i].swap_direction = "buy"
            => run.stdout[i].token0_relevance = "out"

(***************************************************************************)
(* Claims about the checks and the pool lookup of the LP extractors        *)
(***************************************************************************)
\* What a reserve and its running sum differ by, either way
drift(supply, running_total) == dec_abs(dec_sub(Decimal(supply), running_total))

\* C27: a run of any extractor that completes has attributed each reserve
\* to within MAX_ROUNDING_DRIFT, above as well as below: a sum that differs
\* by more in either direction has ended the run with a failure.
C27_TwoSidedReserveCheck ==
    Completed(Protocols)
        => /\ dec_le(drift(chain.a_supply, run.running_total_a),
                     Decimal(MAX_ROUNDING_DRIFT))
           /\ dec_le(drift(chain.b_supply, run.running_total_b),
                     Decimal(MAX_ROUNDING_DRIFT))

\* C29: the Sushiswap run ends with 'Could not find relevant Sushi pool'
\* only if no pool of MasterChef is the pair's, the last one included, and
\* past the lookup it holds the id of the pair's pool.
C29_PoolFoundAtAnyIndex ==
    (chain.protocol = "sushiswap" /\ chain.pair_address # ""
     /\ \E pid \in 0..(Len(chain.pools) - 1) : chain.pools[pid + 1] = chain.pair_address)
        => /\ run.pc # "no pool"
           /\ run.pc # "start" => run.pair_pool_id = pool_id_of_pair

(***************************************************************************)
(* Claims about the ledger run and the eligible balance                    *)
(***************************************************************************)
KnownTokens == { USDT_ADDRESS, USDC_ADDRESS, WETH_ADDRESS }
\* main() was left by sys.exit(1) or by an exception
Aborted == pc \in { "SystemExit", "KeyError" }

\* What handling a row with an unknown token1 leaves main() by, for every
\* such row the file at hand may hold
lp_rows_abort ==
    \A lp \in LpRows :
        lp.token1 \in KnownTokens
        \/ process_uniswap_lp_data(accounts, params, lp, pc \in LpStartFiles).status
               = IF toChecksumAddress(lp.lp_address) = lp.lp_address
                 THEN "SystemExit" ELSE "KeyError"
swap_rows_abort ==
    \A row \in SwapRows :
        row.token1 \in KnownTokens
        \/ process_uniswap_swap_data(accounts, params, row).status = "SystemExit"

\* C26: a row of an LP file or of a swap file whose token1 is none of
\* USDT, USDC and WETH ends the run: handling it leaves main() by
\* sys.exit(1) (for an LP row whose address is not in checksum case, by
\* the KeyError raised before the token is looked at), nothing is read or
\* written after that, and no output row exists.
C26_UnknownTokenIsFatal ==
    /\ [](pc \in LpStartFiles \cup LpEndFiles => lp_rows_abort)
    /\ [](pc \in SwapFiles => swap_rows_abort)
    /\ [](Aborted => out = <<>>)
    /\ [][~Aborted]_vars

\* Two rows were read, the first gave an account a balance, the second
\* named an unknown token: the run is over and nothing was written
C26_Witness ==
    /\ pc = "SystemExit"
    /\ nrows = 2
    /\ \E i \in 1..Len(accounts) : accounts[i]._ousd_balance_start > 0
    /\ out = <<>>

====
